---- MODULE Spec2Model ----
(***************************************************************************)
(* Guardrail-and-redistribution engine of the weekly training planner:     *)
(* src/lib/guardrails.ts (day classifier, cap policy, day checker,         *)
(* baseline, ramp, week aggregator) and src/lib/scale.ts (what-if scaler), *)
(* driven as in src/components/WhatIfPanel.tsx.                            *)
(*                                                                         *)
(* Numbers.  A JavaScript value stored in a numeric field is a record      *)
(* [k, x10]: k = "num" is the finite number x10/10, the other kinds are    *)
(* NaN, Infinity, undefined and a non-numeric string.  Quantities that the *)
(* code rounds to one decimal (baseline, ramp) are carried in tenths.      *)
(* Divisions are exact (rationals p/q), so Math.round is exact; the code's *)
(* IEEE doubles differ from this only on products that are not exactly     *)
(* representable and land within one ulp of a rounding tie.                *)
(*                                                                         *)
(* Dates.  An ISO date "YYYY-MM-DD" is its day number; start_date_local    *)
(* "YYYY-MM-DDTHH:mm" is <<day, minute of day>>.  ISO dates compare as     *)
(* strings in the order of their day numbers.                              *)
(*                                                                         *)
(* Text.  A description is a sequence of characters (one-character         *)
(* strings, "U+xxxx" for a non-ASCII one); includes, join and toLowerCase  *)
(* work on the characters.                                                 *)
(***************************************************************************)
EXTENDS Integers, Sequences, FiniteSets, TLC

VARIABLES
  week,        \* WeekPlan given to the panel / function under analysis
  history,     \* HistoryInputs
  config,      \* GuardrailConfig
  utcOffset,   \* minutes east of UTC of the runtime's local time zone
  opts,        \* ScaleOptions of the last scaleWeekToTarget call (Null before)
  preview,     \* Null or <<ScaleResult>>: WhatIfPanel's preview state
  error,       \* "" or the exception the last call raised
  current,     \* Null or <<GuardrailSummary>> of week
  prospective, \* Null or <<GuardrailSummary>> of preview.week
  applied,     \* Null or <<WeekPlan>>: the week handed to onApply
  day,         \* Null or <<DailyCheck>>: result of a direct checkDay call
  call,        \* Null or <<the last direct call of an exported function>>
  pc           \* position of the caller: "mount", "idle", "previewed", "failed", "test", ...

vars == <<week, history, config, utcOffset, opts, preview, error, current,
          prospective, applied, day, call, pc>>

-----------------------------------------------------------------------------
(* JavaScript values *)

Null == <<>>
Some(x) == <<x>>
Val(o) == o[1]

Num(n) == [k |-> "num", x10 |-> 10 * n]
Dec(t) == [k |-> "num", x10 |-> t]
NaN == [k |-> "nan", x10 |-> 0]
Infinity == [k |-> "inf", x10 |-> 0]
Undefined == [k |-> "undefined", x10 |-> 0]
Garbled == [k |-> "string", x10 |-> 0]

\* Number(n): a number is itself; undefined and a non-numeric string are NaN.
Number(n) == IF n.k \in {"num", "inf", "nan"} THEN n ELSE NaN

isFinite(x) == x.k = "num"

\* Math.round(p/q) for q > 0: the nearest integer, ties toward +Infinity.
MathRound(p, q) == (2 * p + q) \div (2 * q)

Abs(n) == IF n < 0 THEN -n ELSE n
Sign(n) == IF n > 0 THEN 1 ELSE IF n < 0 THEN -1 ELSE 0
Min(a, b) == IF a < b THEN a ELSE b
Max(a, b) == IF a > b THEN a ELSE b

RECURSIVE SumSeq(_)
SumSeq(s) == IF s = <<>> THEN 0 ELSE Head(s) + SumSeq(Tail(s))

\* An array built element by element, held as a tuple.
Array(f) == SubSeq(f, 1, Len(f))

Map(s, F(_)) == Array([i \in 1..Len(s) |-> F(s[i])])

\* const x = v; followed by the code F that uses x: v is computed once.
Let(v, F(_)) == F(v)

Range(s) == {s[i] : i \in 1..Len(s)}

-----------------------------------------------------------------------------
(* Text *)

UpperToLower ==
  [A |-> "a", B |-> "b", C |-> "c", D |-> "d", E |-> "e", F |-> "f", G |-> "g",
   H |-> "h", I |-> "i", J |-> "j", K |-> "k", L |-> "l", M |-> "m", N |-> "n",
   O |-> "o", P |-> "p", Q |-> "q", R |-> "r", S |-> "s", T |-> "t", U |-> "u",
   V |-> "v", W |-> "w", X |-> "x", Y |-> "y", Z |-> "z"]

toLowerCase(s) ==
  Array([i \in 1..Len(s) |-> IF s[i] \in DOMAIN UpperToLower THEN UpperToLower[s[i]] ELSE s[i]])

includes(s, pat) ==
  \E i \in 0..(Len(s) - Len(pat)) :
    \A j \in 1..Len(pat) : s[i + j] = pat[j]

RECURSIVE join(_, _)
join(parts, sep) ==
  IF parts = <<>> THEN <<>>
  ELSE IF Len(parts) = 1 THEN parts[1]
  ELSE parts[1] \o sep \o join(Tail(parts), sep)

\* e.description || "": an absent description is the empty text.
descOf(e) == e.description

-----------------------------------------------------------------------------
(* guardrails.ts: configuration *)

\* The daily caps are numbers, kept in tenths of a load unit: 140, 90, 180.
DEFAULT_GUARDRAILS ==
  [ramp_warn_pct |-> 8, ramp_stop_pct |-> 12,
   daily_caps |-> [hard |-> 1400, endurance |-> 900, long_ride |-> 1800],
   min_step |-> 2, baseline_window_days |-> 28]

LONG_RIDE_TIME_THRESHOLD_SEC == 3 * 3600

-----------------------------------------------------------------------------
(* guardrails.ts: helpers *)

\* round0 of the rational p/q: Math.round(p/q).
round0(p, q) == MathRound(p, q)

\* round1 of the rational p/q, in tenths: Math.round((p/q) * 10).
round1(p, q) == MathRound(10 * p, q)

safeInt(n) ==
  LET x == Number(n)
  IN IF ~isFinite(x) THEN 0 ELSE MathRound(x.x10, 10)

\* sumPlannedLoad counting the entries instead of adding their loads.
sumPlannedLoad_Entries(w) == Len(w.events)

sumPlannedLoad(w) ==
  SumSeq(Map(w.events, LAMBDA e : safeInt(e.icu_training_load)))

\* The local midnight of day d, read back through toISOString (UTC).
toISODate(d) == (d * 1440 - utcOffset) \div 1440

\* start_date_local.slice(0, 10)
dateOf(e) == e.start_date_local[1]

RECURSIVE sortAscending(_)
sortAscending(S) ==
  IF S = {} THEN <<>>
  ELSE LET m == CHOOSE x \in S : \A y \in S : x <= y
       IN <<m>> \o sortAscending(S \ {m})

-----------------------------------------------------------------------------
(* guardrails.ts: day classifier *)

hardHints ==
  << <<"v", "o", "2">>,
     <<"v", "o", "U+00E2", "U+201A", "U+201A">>,
     <<"a", "n", "a", "e", "r", "o", "b", "i", "c">>,
     <<"r", "a", "c", "e">>,
     <<"c", "r", "i", "t">>,
     <<"o", "v", "e", "r", "-", "u", "n", "d", "e", "r">>,
     <<"o", "v", "e", "r", " ", "u", "n", "d", "e", "r">>,
     <<"o", "/", "u">>,
     <<"t", "h", "r", "e", "s", "h", "o", "l", "d">>,
     <<"s", "w", "e", "e", "t", " ", "s", "p", "o", "t">>,
     <<"s", "s">>,
     <<"c", "l", "i", "m", "b", " ", "r", "e", "p", "e", "a", "t", "s">>,
     <<"s", "p", "r", "i", "n", "t">>,
     <<"a", "t", "t", "a", "c", "k", "s">>,
     <<"@", " ", "1", ".", "0">>,
     <<"@", "1", ".", "0">>,
     <<"%", " ", "o", "f", " ", "f", "t", "p">>,
     <<"1", "2", "0", "%">>,
     <<"1", "1", "0", "%">>,
     <<"1", "0", "5", "%">> >>

enduHints ==
  << <<"e", "n", "d", "u", "r", "a", "n", "c", "e">>,
     <<"z", "2">>,
     <<"z", "o", "n", "e", " ", "2">>,
     <<"a", "e", "r", "o", "b", "i", "c">>,
     <<"b", "a", "s", "e">>,
     <<"t", "e", "m", "p", "o">>,
     <<"g", "r", "p", " ", "r", "i", "d", "e">>,
     <<"g", "r", "o", "u", "p", " ", "r", "i", "d", "e">> >>

recHints ==
  << <<"r", "e", "c", "o", "v", "e", "r", "y">>,
     <<"z", "1">>,
     <<"e", "a", "s", "y">>,
     <<"s", "p", "i", "n">> >>

\* hints.some((h) => desc.includes(h))
someIncluded(hints, desc) == \E i \in 1..Len(hints) : includes(desc, hints[i])

\* Descriptions used by the inputs below (test files, demo page).
Desc_None == <<>>
Desc_VO2 == <<"V", "O", "2", " ", "5", "x", "3", "'", " ", "@", "1", "2", "0", "%">>
Desc_EnduranceZ2 == <<"E", "n", "d", "u", "r", "a", "n", "c", "e", " ", "z", "2">>
Desc_EnduranceLongRide ==
  <<"E", "n", "d", "u", "r", "a", "n", "c", "e", " ", "l", "o", "n", "g", " ", "r", "i", "d", "e">>
Desc_RecoverySpin ==
  <<"R", "e", "c", "o", "v", "e", "r", "y", " ", "s", "p", "i", "n", " ", "z", "1">>
Desc_Z2LR == <<"Z", "2", " ", "L", "R">>
Desc_Z2Long == <<"Z", "2", " ", "l", "o", "n", "g">>
Desc_RideEasy == <<"r", "i", "d", "e", " ", "e", "a", "s", "y">>

Descriptions ==
  {Desc_None, Desc_VO2, Desc_EnduranceZ2, Desc_EnduranceLongRide,
   Desc_RecoverySpin, Desc_Z2LR, Desc_Z2Long, Desc_RideEasy}

\* The three keyword tests of scoreEventHardness, evaluated once per description.
descriptionHints ==
  [d \in Descriptions |->
     LET desc == toLowerCase(d)
     IN [hard |-> someIncluded(hardHints, desc),
         endu |-> someIncluded(enduHints, desc),
         rec |-> someIncluded(recHints, desc)]]

\* scoreEventHardness looking at the endurance and recovery keywords before
\* the load thresholds.
scoreEventHardness_KeywordsFirst(e) ==
  LET hints == descriptionHints[descOf(e)]
      type == e.type
      load == safeInt(e.icu_training_load)
  IN IF hints.hard THEN 3
     ELSE IF hints.endu THEN 2
     ELSE IF hints.rec THEN 1
     ELSE IF type = "Workout" /\ load >= 70 THEN 3
     ELSE IF load >= 100 THEN 3
     ELSE IF type \in {"Ride", "Gravel Ride", "Virtual Ride"} THEN 2
     ELSE IF type = "Workout" THEN 3
     ELSE 2

scoreEventHardness(e) ==
  LET hints == descriptionHints[descOf(e)]
      type == e.type
      load == safeInt(e.icu_training_load)
  IN IF hints.hard THEN 3
     ELSE IF type = "Workout" /\ load >= 70 THEN 3
     ELSE IF load >= 100 THEN 3
     ELSE IF hints.endu THEN 2
     ELSE IF hints.rec THEN 1
     ELSE IF type \in {"Ride", "Gravel Ride", "Virtual Ride"} THEN 2
     ELSE IF type = "Workout" THEN 3
     ELSE 2

hardnessToDayType(score) ==
  IF score >= 3 THEN "hard"
  ELSE IF score = 2 THEN "endurance"
  ELSE IF score = 1 THEN "recovery"
  ELSE "endurance"

\* The scan of inferDayType from entry i on, with the running maximum.
RECURSIVE inferScan(_, _, _, _)
inferScan(events, i, maxScore, chosen) ==
  IF i > Len(events) THEN chosen
  ELSE LET s == scoreEventHardness(events[i])
       IN IF s > maxScore
          THEN inferScan(events, i + 1, s, hardnessToDayType(s))
          ELSE inferScan(events, i + 1, maxScore, chosen)

\* inferDayType taking the label of the first entry.
inferDayType_FirstEntry(events) ==
  IF Len(events) = 0 THEN "rest"
  ELSE hardnessToDayType(scoreEventHardness(events[1]))

inferDayType(events) ==
  IF Len(events) = 0 THEN "rest"
  ELSE inferScan(events, 1, -1, "endurance")

hasLongRideHint(events) ==
  LET desc == toLowerCase(join(Map(events, descOf), <<" ">>))
  IN includes(desc, <<"l", "o", "n", "g", " ", "r", "i", "d", "e">>)
     \/ includes(desc, <<"l", "r">>)

-----------------------------------------------------------------------------
(* guardrails.ts: cap policy and day checker *)

\* An entry's duration left out of the day's total.
movingTimeOf_Zero(e) == 0

\* e.moving_time || 0
movingTimeOf(e) == e.moving_time

\* capApplied is in tenths of a load unit, as the caps; totalLoad and overBy
\* are whole numbers.
checkDay(bucket, cfg) ==
  Let(SumSeq(Map(bucket.events, LAMBDA e : safeInt(e.icu_training_load))), LAMBDA totalLoad :
  Let(SumSeq(Map(bucket.events, movingTimeOf)), LAMBDA totalMovingTime :
  Let(inferDayType(bucket.events), LAMBDA dayType :
  Let(totalMovingTime >= LONG_RIDE_TIME_THRESHOLD_SEC \/ hasLongRideHint(bucket.events),
      LAMBDA isLongRide :
    LET caps == cfg.daily_caps
        recoveryCap == Min(caps.endurance, 500)
        primaryCap ==
          IF dayType = "hard" THEN Some(caps.hard)
          ELSE IF dayType = "endurance" THEN Some(caps.endurance)
          ELSE IF dayType = "recovery" THEN Some(recoveryCap)
          ELSE Null
        primaryBreach ==
          IF dayType = "hard" /\ 10 * totalLoad > caps.hard THEN <<"hard_cap">>
          ELSE IF dayType = "endurance" /\ 10 * totalLoad > caps.endurance THEN <<"endurance_cap">>
          ELSE IF dayType = "recovery" /\ 10 * totalLoad > recoveryCap THEN <<"endurance_cap">>
          ELSE <<>>
        breaches ==
          IF isLongRide /\ 10 * totalLoad > caps.long_ride
          THEN Append(primaryBreach, "long_ride_cap")
          ELSE primaryBreach
        capApplied ==
          IF isLongRide
          THEN IF primaryCap = Null THEN Some(caps.long_ride)
               ELSE Some(Min(Val(primaryCap), caps.long_ride))
          ELSE primaryCap
        \* in tenths, as the caps
        overBy == IF capApplied = Null THEN 0 ELSE Max(0, 10 * totalLoad - Val(capApplied))
    IN [date |-> bucket.date,
        totalLoad |-> round0(totalLoad, 1),
        totalMovingTime |-> totalMovingTime,
        dayType |-> dayType,
        capApplied |-> capApplied,
        overBy |-> round0(overBy, 10),
        breaches |-> breaches]))))

groupEventsByDate(w) ==
  LET dates == {dateOf(w.events[i]) : i \in 1..Len(w.events)}
                 \cup {toISODate(w.week_start + i) : i \in 0..6}
      sorted == sortAscending(dates)
  IN Map(sorted, LAMBDA d : [date |-> d,
                              events |-> SelectSeq(w.events, LAMBDA e : dateOf(e) = d)])

-----------------------------------------------------------------------------
(* guardrails.ts: baseline and ramp.  Baseline and ramp are in tenths. *)

\* [...xs].sort((a, b) => a.date.localeCompare(b.date)): a stable sort.
RECURSIVE sortByDate(_)
sortByDate(xs) ==
  IF xs = <<>> THEN <<>>
  ELSE LET m == CHOOSE i \in 1..Len(xs) :
                  /\ \A j \in 1..Len(xs) : xs[i].date <= xs[j].date
                  /\ \A j \in 1..(i - 1) : xs[j].date > xs[i].date
       IN <<xs[m]>> \o sortByDate(SubSeq(xs, 1, m - 1) \o SubSeq(xs, m + 1, Len(xs)))

\* xs.slice(0, n): the first n instead of the last n.
lastN_Oldest(xs, n) == IF Len(xs) <= n THEN xs ELSE SubSeq(xs, 1, n)

\* xs.slice(-n)
lastN(xs, n) == IF Len(xs) <= n THEN xs ELSE SubSeq(xs, Len(xs) - n + 1, Len(xs))

\* calcBaselineWeekly consulting the prior planned weeks before the actual
\* daily loads.
calcBaselineWeekly_PlannedFirst(h, cfg, fallbackWeekLoad) ==
  LET window == Max(7, cfg.baseline_window_days)
  IN IF Len(h.previousPlannedWeeks) > 0
     THEN Let(lastN(h.previousPlannedWeeks, 2), LAMBDA lastTwo :
            round1(SumSeq(Map(lastTwo, sumPlannedLoad)), Len(lastTwo)))
     ELSE IF Len(h.actualDailyLoads) > 0
     THEN Let(lastN(sortByDate(h.actualDailyLoads), window), LAMBDA last :
            MathRound(SumSeq(Map(last, LAMBDA x : IF isFinite(x.load) THEN x.load.x10 ELSE 0)) * 7,
                      Max(1, Len(last))))
     ELSE round1(fallbackWeekLoad, 1)

calcBaselineWeekly(h, cfg, fallbackWeekLoad) ==
  LET window == Max(7, cfg.baseline_window_days)
  IN IF Len(h.actualDailyLoads) > 0
     THEN Let(lastN(sortByDate(h.actualDailyLoads), window), LAMBDA last :
            \* round1((sum / max(1, n)) * 7), with sum in tenths
            MathRound(SumSeq(Map(last, LAMBDA x : IF isFinite(x.load) THEN x.load.x10 ELSE 0)) * 7,
                      Max(1, Len(last))))
     ELSE IF Len(h.previousPlannedWeeks) > 0
     THEN Let(lastN(h.previousPlannedWeeks, 2), LAMBDA lastTwo :
            round1(SumSeq(Map(lastTwo, sumPlannedLoad)), Len(lastTwo)))
     ELSE round1(fallbackWeekLoad, 1)

\* calcRampPct rounding to a whole percent.
calcRampPct_Whole(planned, baseline10) ==
  IF baseline10 <= 0 THEN 0
  ELSE 10 * MathRound((10 * planned - baseline10) * 100, baseline10)

calcRampPct(planned, baseline10) ==
  IF baseline10 <= 0 THEN 0
  ELSE \* Math.round(((planned - baseline) / baseline) * 100 * 10)
       MathRound((10 * planned - baseline10) * 1000, baseline10)

\* mapSeverity with "none" for a negative ramp only.
mapSeverity_NegativeOnly(pctE4, cfg) ==
  IF pctE4 < 0 THEN "none"
  ELSE IF pctE4 < 10000 * cfg.ramp_warn_pct THEN "info"
  ELSE IF pctE4 < 10000 * cfg.ramp_stop_pct THEN "warn"
  ELSE "stop"

\* mapSeverity with a ramp exactly at a threshold kept in the lower tier.
mapSeverity_LowerAtThreshold(pctE4, cfg) ==
  IF pctE4 < 1 THEN "none"
  ELSE IF pctE4 <= 10000 * cfg.ramp_warn_pct THEN "info"
  ELSE IF pctE4 <= 10000 * cfg.ramp_stop_pct THEN "warn"
  ELSE "stop"

\* pct is in ten-thousandths of a percent (pct < 0.0001 is pctE4 < 1).
mapSeverity(pctE4, cfg) ==
  IF pctE4 < 1 THEN "none"
  ELSE IF pctE4 < 10000 * cfg.ramp_warn_pct THEN "info"
  ELSE IF pctE4 < 10000 * cfg.ramp_stop_pct THEN "warn"
  ELSE "stop"

-----------------------------------------------------------------------------
(* guardrails.ts: week aggregator *)

computeGuardrails(w, h, cfg) ==
  Let(groupEventsByDate(w), LAMBDA days :
  Let(Map(days, LAMBDA d : checkDay(d, cfg)), LAMBDA dailyChecks :
  Let(SumSeq(Map(dailyChecks, LAMBDA d : d.totalLoad)), LAMBDA plannedWeekLoad :
  Let(calcBaselineWeekly(h, cfg, plannedWeekLoad), LAMBDA baselineWeeklyLoad :
  Let(calcRampPct(plannedWeekLoad, baselineWeeklyLoad), LAMBDA rampPct :
    [plannedWeekLoad |-> plannedWeekLoad,
     baselineWeeklyLoad |-> baselineWeeklyLoad,
     rampPct |-> rampPct,
     rampSeverity |-> mapSeverity(1000 * rampPct, cfg),
     daily |-> dailyChecks])))))

-----------------------------------------------------------------------------
(* scale.ts: helpers *)

toInt(n) ==
  LET x == Number(n)
  IN IF isFinite(x) THEN MathRound(x.x10, 10) ELSE 0

\* roundStep of the rational p/q (q > 0).
roundStep(p, q, step) ==
  IF step <= 1 THEN MathRound(p, q)
  ELSE MathRound(p, q * step) * step

\* cloneEvent returning the entry object it was given instead of a copy.
cloneEvent_Alias(e) == e

\* { ...e, icu_training_load: toInt(e.icu_training_load) }: a new object.
cloneEvent(e) == [e EXCEPT !.icu_training_load = Num(toInt(e.icu_training_load)),
                           !.ref = 0]

\* The first index holding the maximum load (strict > keeps the earlier one).
indexOfMaxLoad(events) ==
  CHOOSE i \in 1..Len(events) :
    /\ \A j \in 1..Len(events) :
         toInt(events[j].icu_training_load) <= toInt(events[i].icu_training_load)
    /\ \A j \in 1..(i - 1) :
         toInt(events[j].icu_training_load) < toInt(events[i].icu_training_load)

scaleHasLongRideHint(events) ==
  LET desc == toLowerCase(join(Map(events, descOf), <<" ">>))
  IN includes(desc, <<"l", "o", "n", "g", " ", "r", "i", "d", "e">>)
     \/ includes(desc, <<" ", "l", "r", " ">>)
     \/ includes(desc, <<" ", "l", "r", ":">>)
     \/ includes(desc, <<"e", "n", "d", "u", "r", "a", "n", "c", "e", " ",
                         "l", "o", "n", "g", " ", "r", "i", "d", "e">>)

-----------------------------------------------------------------------------
(* scale.ts: options.  targetWeeklyLoad and scalePct are in tenths. *)

withDefaults(o) ==
  [targetWeeklyLoad |-> IF o.targetWeeklyLoad = Null THEN 0 ELSE Val(o.targetWeeklyLoad),
   scalePct |-> IF o.scalePct = Null THEN 0 ELSE Val(o.scalePct),
   lockRestDays |-> IF o.lockRestDays = Null THEN TRUE ELSE Val(o.lockRestDays),
   respectCaps |-> IF o.respectCaps = Null THEN TRUE ELSE Val(o.respectCaps)]

\* resolveTarget looking at scalePct before targetWeeklyLoad.
resolveTarget_PctFirst(beforeLoad, o) ==
  IF o.scalePct # 0 /\ o.scalePct > 0
  THEN MathRound(beforeLoad * o.scalePct, 1000)
  ELSE IF o.targetWeeklyLoad # 0 /\ o.targetWeeklyLoad > 0
  THEN MathRound(o.targetWeeklyLoad, 10)
  ELSE beforeLoad

resolveTarget(beforeLoad, o) ==
  IF o.targetWeeklyLoad # 0 /\ o.targetWeeklyLoad > 0
  THEN MathRound(o.targetWeeklyLoad, 10)
  ELSE IF o.scalePct # 0 /\ o.scalePct > 0
  THEN \* round0(beforeLoad * (scalePct / 100)), scalePct in tenths
       MathRound(beforeLoad * o.scalePct, 1000)
  ELSE beforeLoad

-----------------------------------------------------------------------------
(* scale.ts: day analysis *)

\* groupByDate filling in the seven dates of the week window, as
\* groupEventsByDate of guardrails.ts does.
groupByDate_Windowed(w) == groupEventsByDate(w)

groupByDate(w) ==
  LET sorted == sortAscending({dateOf(w.events[i]) : i \in 1..Len(w.events)})
  IN Map(sorted, LAMBDA d : [date |-> d,
                              events |-> SelectSeq(w.events, LAMBDA e : dateOf(e) = d)])

analyzeDay(bucket, cfg, o) ==
  Let(SumSeq(Map(bucket.events, LAMBDA e : toInt(e.icu_training_load))), LAMBDA totalLoad :
  Let(SumSeq(Map(bucket.events, movingTimeOf)), LAMBDA totalMovingTime :
  Let(inferDayType(bucket.events), LAMBDA dayType :
    LET caps == cfg.daily_caps
        primaryCap ==
          IF dayType = "hard" THEN Some(caps.hard)
          ELSE IF dayType = "endurance" THEN Some(caps.endurance)
          ELSE IF dayType = "recovery" THEN Some(Min(caps.endurance, 500))
          ELSE Null
        isLongRide ==
          totalMovingTime >= LONG_RIDE_TIME_THRESHOLD_SEC \/ scaleHasLongRideHint(bucket.events)
        capApplied ==
          IF ~o.respectCaps THEN Null
          ELSE IF isLongRide
          THEN IF primaryCap = Null THEN Some(caps.long_ride)
               ELSE Some(Min(Val(primaryCap), caps.long_ride))
          ELSE primaryCap
    IN [date |-> bucket.date, events |-> bucket.events, totalLoad |-> totalLoad,
        totalMovingTime |-> totalMovingTime, dayType |-> dayType,
        capApplied |-> capApplied, weight |-> 0])))

\* Day weights in tenths: hard 1.0, endurance 0.6, recovery 0.2, rest 0.0.
dayWeight(type, o) ==
  IF type = "rest" /\ o.lockRestDays THEN 0
  ELSE IF type = "hard" THEN 10
  ELSE IF type = "endurance" THEN 6
  ELSE IF type = "recovery" THEN 2
  ELSE 0

-----------------------------------------------------------------------------
(* scale.ts: per-entry distribution *)

\* The write without the floor at 0.
addLoad_NoFloor(e, inc) ==
  [e EXCEPT !.icu_training_load = Num(toInt(Num(toInt(e.icu_training_load) + inc)))]

\* e.icu_training_load = toInt(e.icu_training_load + inc), floored at 0: a
\* write to the object e (its ref is kept).
addLoad(e, inc) ==
  LET v == toInt(Num(toInt(e.icu_training_load) + inc))
  IN [e EXCEPT !.icu_training_load = Num(IF v < 0 THEN 0 ELSE v)]

\* The entries and the drift as they stand when the drift repair loop is
\* reached: stepped shares applied to the clones, drift = what the stepped
\* shares leave of totalDelta.
applyStepped(events, totalDelta, step) ==
  Let(Map(events, LAMBDA e : Max(0, toInt(e.icu_training_load))), LAMBDA loads :
  Let(SumSeq(loads), LAMBDA sum :
  \* raw[i] = totalDelta * weights[i], the rational num / den
  Let(Map(loads, LAMBDA x :
        IF sum > 0 THEN roundStep(totalDelta * x, sum, step)
        ELSE roundStep(totalDelta, Len(events), step)), LAMBDA stepped :
    [updated |-> Array([i \in 1..Len(events) |-> addLoad(cloneEvent(events[i]), stepped[i])]),
     drift |-> totalDelta - SumSeq(stepped)])))

\* One iteration with the increment always a whole step.
nudgeOnce_FullStep(updated, drift, step) ==
  LET idx == indexOfMaxLoad(updated)
      inc == Sign(drift) * step
  IN [updated |-> [updated EXCEPT ![idx] = addLoad(updated[idx], inc)],
      drift |-> drift - inc]

\* One iteration of the drift repair loop: nudge the largest-load entry by
\* at most one step towards the drift.
nudgeOnce(updated, drift, step) ==
  LET idx == indexOfMaxLoad(updated)
      inc == Sign(drift) * Min(Abs(drift), step)
  IN [updated |-> [updated EXCEPT ![idx] = addLoad(updated[idx], inc)],
      drift |-> drift - inc]

\* The drift repair loop: while (drift !== 0) nudge the largest-load entry.
RECURSIVE nudge(_, _, _)
nudge(updated, drift, step) ==
  IF drift = 0 THEN updated
  ELSE Let(nudgeOnce(updated, drift, step), LAMBDA s : nudge(s.updated, s.drift, step))

distributeDeltaAcrossEvents(events, totalDelta, step) ==
  IF Len(events) = 0 \/ totalDelta = 0 THEN Map(events, cloneEvent)
  ELSE IF Len(events) = 1 THEN <<addLoad(cloneEvent(events[1]), totalDelta)>>
  ELSE Let(applyStepped(events, totalDelta, step), LAMBDA s :
         nudge(s.updated, s.drift, step))

\* applyDayDelta reporting the day's target as its new total instead of
\* summing the updated entries.
applyDayDelta_TargetAsTotal(d, cfg, o) ==
  LET unclamped == d.totalLoad + d.desiredDelta
      \* in tenths, as the cap
      clamped ==
        IF o.respectCaps /\ d.capApplied # Null
        THEN Min(Max(0, 10 * unclamped), Val(d.capApplied))
        ELSE 10 * unclamped
  IN Let(roundStep(clamped, 10, cfg.min_step), LAMBDA targetTotal :
     Let(distributeDeltaAcrossEvents(d.events, targetTotal - d.totalLoad, cfg.min_step),
         LAMBDA updatedEvents :
       [date |-> d.date, totalLoad |-> d.totalLoad, capApplied |-> d.capApplied,
        desiredDelta |-> d.desiredDelta, targetTotal |-> targetTotal,
        updatedEvents |-> updatedEvents,
        newTotal |-> targetTotal]))

applyDayDelta(d, cfg, o) ==
  LET unclamped == d.totalLoad + d.desiredDelta
      \* in tenths, as the cap
      clamped ==
        IF o.respectCaps /\ d.capApplied # Null
        THEN Min(Max(0, 10 * unclamped), Val(d.capApplied))
        ELSE 10 * unclamped
  IN Let(roundStep(clamped, 10, cfg.min_step), LAMBDA targetTotal :
     Let(distributeDeltaAcrossEvents(d.events, targetTotal - d.totalLoad, cfg.min_step),
         LAMBDA updatedEvents :
       [date |-> d.date, totalLoad |-> d.totalLoad, capApplied |-> d.capApplied,
        desiredDelta |-> d.desiredDelta, targetTotal |-> targetTotal,
        updatedEvents |-> updatedEvents,
        newTotal |-> SumSeq(Map(updatedEvents, LAMBDA e : toInt(e.icu_training_load)))]))

-----------------------------------------------------------------------------
(* scale.ts: public API *)

\* finalize is called on both no-op paths and is neither defined in scale.ts
\* nor imported: evaluating the call raises a ReferenceError.
finalize(w, dayInfos, beforeLoad, afterLoad, requestedTarget) ==
  [threw |-> TRUE, error |-> "ReferenceError: finalize is not defined",
   beforeLoad |-> beforeLoad, afterLoad |-> afterLoad,
   requestedTarget |-> requestedTarget, residual |-> 0,
   changes |-> <<>>, week |-> w, input |-> w]

\* The weights, the first pass and the second pass of scaleWeekToTarget: one
\* record per day.
scalePasses(dayInfos, delta, cfg, options) ==
  Let(Map(dayInfos, LAMBDA d : [d EXCEPT !.weight = dayWeight(d.dayType, options)]),
      LAMBDA weighted :
  Let(SumSeq(Map(weighted, LAMBDA d : d.weight)), LAMBDA sumW :
  Let(Map(weighted, LAMBDA d :
        [date |-> d.date, events |-> d.events, totalLoad |-> d.totalLoad,
         capApplied |-> d.capApplied,
         desiredDelta |-> roundStep(delta * d.weight, sumW, cfg.min_step)]),
      LAMBDA proposed :
    Map(proposed, LAMBDA d : applyDayDelta(d, cfg, options)))))

\* The input week as the caller finds it after the call: an entry object of
\* the input that was written to during the call holds the written value.
inputAfter(w, written) ==
  [w EXCEPT !.events =
     Array([i \in 1..Len(w.events) |->
       IF \E j \in 1..Len(written) : written[j].ref = i
       THEN written[CHOOSE j \in 1..Len(written) : written[j].ref = i]
       ELSE w.events[i]])]

\* The ScaleResult built from the days of the second pass.
scaleResult(w, appliedDays, beforeLoad, requestedTarget) ==
  Let(Map(appliedDays, LAMBDA d :
        [date |-> d.date,
         before |-> d.totalLoad,
         after |-> d.newTotal,
         appliedDelta |-> d.newTotal - d.totalLoad,
         capApplied |-> d.capApplied]), LAMBDA changes :
  Let(SumSeq(Map(changes, LAMBDA c : c.after)), LAMBDA afterLoad :
    [threw |-> FALSE, error |-> "",
     beforeLoad |-> beforeLoad, afterLoad |-> afterLoad,
     requestedTarget |-> requestedTarget,
     residual |-> requestedTarget - afterLoad,
     changes |-> changes,
     week |-> [week_start |-> w.week_start,
               events |-> join(Map(appliedDays, LAMBDA d : d.updatedEvents), <<>>)],
     input |-> inputAfter(w, join(Map(appliedDays, LAMBDA d : d.updatedEvents), <<>>))]))

scaleWeekToTarget(w, cfg, o) ==
  Let(withDefaults(o), LAMBDA options :
  Let(Map(groupByDate(w), LAMBDA b : analyzeDay(b, cfg, options)), LAMBDA dayInfos :
  Let(SumSeq(Map(dayInfos, LAMBDA d : d.totalLoad)), LAMBDA beforeLoad :
  Let(resolveTarget(beforeLoad, options), LAMBDA requestedTarget :
    IF Abs(requestedTarget - beforeLoad) < cfg.min_step
    THEN finalize(w, dayInfos, beforeLoad, beforeLoad, requestedTarget)
    ELSE IF SumSeq(Map(dayInfos, LAMBDA d : dayWeight(d.dayType, options))) <= 0
    THEN finalize(w, dayInfos, beforeLoad, beforeLoad, requestedTarget)
    ELSE scaleResult(w, scalePasses(dayInfos, requestedTarget - beforeLoad, cfg, options),
                     beforeLoad, requestedTarget)))))

-----------------------------------------------------------------------------
(* Inputs *)

MaxEvents == 2

\* makeEvent of the test files: an entry at 08:00 of the given day.  ref is
\* the identity of the object: k for the k-th entry object of the week a
\* caller holds, 0 for an object that is not part of it.
makeEvent(date, load, secs, desc, type) ==
  [ref |-> 0,
   external_id |-> <<date, load, secs>>,
   start_date_local |-> <<date, 480>>,
   type |-> type,
   category |-> "WORKOUT",
   moving_time |-> secs,
   icu_training_load |-> load,
   description |-> desc]

WeekStart == 0

ScaleDays == {1, 2}

\* Entries offered to the scaler: well-formed (integer load >= 0).
ScalePool ==
  {makeEvent(d, Num(l), 3600, Desc_VO2, "Workout") : d \in ScaleDays, l \in {120}}
  \cup {makeEvent(d, Num(l), 5400, Desc_EnduranceZ2, "Ride") : d \in ScaleDays, l \in {3, 85}}
  \cup {makeEvent(d, Num(l), 4 * 3600, Desc_EnduranceLongRide, "Ride") : d \in ScaleDays, l \in {170}}
  \cup {makeEvent(d, Num(l), 1800, Desc_RecoverySpin, "Ride") : d \in ScaleDays, l \in {0, 35}}
  \cup {makeEvent(d, Num(l), 3600, Desc_None, "Ride") : d \in ScaleDays, l \in {120}}

SeqsUpTo(S, n) == UNION {[1..k -> S] : k \in 0..n}

\* A week plan holding the entry objects es, numbered in array order.
weekOf(start, es) ==
  [week_start |-> start,
   events |-> Array([i \in 1..Len(es) |-> [es[i] EXCEPT !.ref = i]])]

\* The weeks of scale.text.ts.
TestWeek_ScaleUp ==
  weekOf(WeekStart,
           <<makeEvent(1, Num(120), 3600, Desc_VO2, "Workout"),
             makeEvent(3, Num(80), 5400, Desc_EnduranceZ2, "Ride"),
             makeEvent(5, Num(170), 4 * 3600, Desc_EnduranceLongRide, "Ride")>>)

TestWeek_RestDays ==
  weekOf(WeekStart, <<makeEvent(1, Num(100), 3600, Desc_None, "Workout")>>)

TestWeek_Residual ==
  weekOf(WeekStart, <<makeEvent(2, Num(85), 3600, Desc_EnduranceZ2, "Ride")>>)

\* A week whose only entry carries the hint "lr" at the end of its text.
Week_LRHint ==
  weekOf(WeekStart, <<makeEvent(1, Num(85), 3600, Desc_Z2LR, "Ride")>>)

\* A week with a day whose load is not a multiple of every min_step.
Week_OffStep ==
  weekOf(WeekStart,
         <<makeEvent(1, Num(100), 3600, Desc_None, "Workout"),
           makeEvent(2, Num(32), 1800, Desc_RecoverySpin, "Ride")>>)

ScaleWeeks ==
  {weekOf(WeekStart, es) : es \in SeqsUpTo(ScalePool, MaxEvents)}
  \cup {TestWeek_ScaleUp, TestWeek_RestDays, TestWeek_Residual, Week_LRHint, Week_OffStep}

\* Entries offered to the guardrails: every kind of load value, dates inside
\* and outside the seven-day window, and the long endurance ride of the
\* guardrails test file.
GuardDates == {WeekStart, WeekStart + 7}

AnyLoads == {Num(60), Num(-5), Dec(805), NaN, Infinity, Undefined, Garbled}

LongEnduranceRide == makeEvent(WeekStart + 1, Num(200), 4 * 3600, Desc_EnduranceLongRide, "Ride")

GuardPool ==
  {makeEvent(d, l, 3600, Desc_None, "Ride") : d \in GuardDates, l \in AnyLoads}
  \cup {LongEnduranceRide}

GuardWeeks ==
  {weekOf(WeekStart, es) : es \in SeqsUpTo(GuardPool, MaxEvents)}

ScaleConfigs ==
  {DEFAULT_GUARDRAILS,
   [DEFAULT_GUARDRAILS EXCEPT !.daily_caps = [hard |-> 1410, endurance |-> 910, long_ride |-> 1810]],
   [DEFAULT_GUARDRAILS EXCEPT !.daily_caps = [hard |-> 1400, endurance |-> 900, long_ride |-> 800]],
   [DEFAULT_GUARDRAILS EXCEPT !.min_step = 1],
   [DEFAULT_GUARDRAILS EXCEPT !.min_step = 5]}

UtcOffsets == {0, 120}

NoHistory == [actualDailyLoads |-> <<>>, previousPlannedWeeks |-> <<>>]

mkOpts(t, p, l, r) ==
  [targetWeeklyLoad |-> t, scalePct |-> p, lockRestDays |-> l, respectCaps |-> r]

OptionChoices ==
  {mkOpts(Null, Null, Null, Null),
   mkOpts(Some(4300), Null, Null, Null),
   mkOpts(Some(1350), Null, Null, Null),
   mkOpts(Some(965), Some(1500), Null, Null),
   mkOpts(Null, Some(1500), Some(TRUE), Null),
   mkOpts(Some(0), Some(1100), Some(TRUE), Some(TRUE)),
   mkOpts(Some(0), Some(500), Some(FALSE), Some(FALSE)),
   mkOpts(Some(1230), Some(0), Some(TRUE), Some(FALSE)),
   mkOpts(Some(-50), Some(0), Null, Null)}

-----------------------------------------------------------------------------
(* WhatIfPanel.tsx: the scaler driven from the panel *)

\* The panel as constructed for a week: nothing rendered, nothing previewed.
Init ==
  /\ week \in ScaleWeeks
  /\ history = NoHistory
  /\ config \in ScaleConfigs
  /\ utcOffset \in UtcOffsets
  /\ opts = Null
  /\ preview = Null
  /\ error = ""
  /\ current = Null
  /\ prospective = Null
  /\ applied = Null
  /\ day = Null
  /\ call = Null
  /\ pc = "mount"

\* First render: const current = useMemo(() => computeGuardrails(week, history, config)).
Render ==
  /\ pc = "mount"
  /\ current' = Some(computeGuardrails(week, history, config))
  /\ pc' = "idle"
  /\ UNCHANGED <<call, week, history, config, utcOffset, opts, preview, error, prospective, applied, day>>

\* handlePreview with the options o handed to scaleWeekToTarget; the options
\* range over the panel's shapes and the direct calls of scale.text.ts.  A
\* throw leaves the panel's state as it was (setPreview is not reached).
HandlePreview(o) ==
  /\ pc = "idle"
  /\ opts' = Some(o)
  /\ \E res \in {scaleWeekToTarget(week, config, o)} :
       IF res.threw
       THEN /\ error' = res.error
            /\ pc' = "failed"
            /\ week' = res.input
            /\ UNCHANGED <<call, preview, prospective>>
       ELSE /\ error' = ""
            /\ pc' = "previewed"
            /\ preview' = Some(res)
            /\ week' = res.input
            /\ prospective' = Some(computeGuardrails(res.week, history, config))
  /\ UNCHANGED <<call, history, config, utcOffset, current, applied, day>>

\* handleApply: onApply(preview.week); setPreview(null).
HandleApply ==
  /\ pc = "previewed"
  /\ applied' = Some(Val(preview).week)
  /\ preview' = Null
  /\ prospective' = Null
  /\ pc' = "applied"
  /\ UNCHANGED <<call, week, history, config, utcOffset, opts, error, current, day>>

\* handleReset: setPreview(null).
HandleReset ==
  /\ pc = "previewed"
  /\ preview' = Null
  /\ prospective' = Null
  /\ pc' = "reset"
  /\ UNCHANGED <<call, week, history, config, utcOffset, opts, error, current, applied, day>>

Next ==
  \/ Render
  \/ \E o \in OptionChoices : HandlePreview(o)
  \/ HandleApply
  \/ HandleReset

Spec == Init /\ [][Next]_vars

-----------------------------------------------------------------------------
(* Planner.tsx and DayCaps.tsx: the guardrails on arbitrary weeks *)

InitGuard ==
  /\ week \in GuardWeeks
  /\ history = NoHistory
  /\ config \in ScaleConfigs
  /\ utcOffset \in UtcOffsets
  /\ opts = Null
  /\ preview = Null
  /\ error = ""
  /\ current = Null
  /\ prospective = Null
  /\ applied = Null
  /\ day = Null
  /\ call = Null
  /\ pc = "mount"

\* DayCaps: checkDay({ date, events }, config) on the entries of one date.
CheckDay(d) ==
  LET events == SelectSeq(week.events, LAMBDA e : dateOf(e) = d)
  IN /\ pc = "idle"
     /\ Len(events) > 0
     /\ day' = Some(checkDay([date |-> d, events |-> events], config))
     /\ pc' = "checked"
     /\ UNCHANGED <<call, week, history, config, utcOffset, opts, preview, error, current,
                    prospective, applied>>

NextGuard ==
  \/ Render
  \/ \E d \in GuardDates \cup {WeekStart + 1} : CheckDay(d)

SpecGuard == InitGuard /\ [][NextGuard]_vars

-----------------------------------------------------------------------------
(* guardrails.test.ts: the exported functions called directly *)

MaxActualDays == 9

MaxPrior == 3

TestDays == 28

\* An entry of HistoryInputs.actualDailyLoads.
dailyLoad(date, load) == [date |-> date, load |-> load]

\* Daily series over the dates 1..n, one entry per date: the same load every
\* day, a load growing with the date, and a load shrinking with the date.
Flat(n) == Array([i \in 1..n |-> dailyLoad(i, Num(80))])
Rising(n) == Array([i \in 1..n |-> dailyLoad(i, Num(10 * i))])
Falling(n) == Array([i \in 1..n |-> dailyLoad(i, Num(300 - 20 * i))])

\* The same series supplied newest first, and with its oldest entry last.
Reversed(xs) == Array([i \in 1..Len(xs) |-> xs[Len(xs) + 1 - i]])
Rotated(xs) == IF xs = <<>> THEN xs ELSE Tail(xs) \o <<Head(xs)>>

ActualSeries ==
  UNION {{xs, Reversed(xs), Rotated(xs)} :
           xs \in UNION {{Flat(n), Rising(n), Falling(n)} : n \in (1..MaxActualDays) \cup {TestDays}}}

\* makeWeek of guardrails.test.ts: one Ride per day with a load above 0.
plannedWeek(start, dailyLoads) ==
  weekOf(start,
         SelectSeq(Array([i \in 1..7 |->
                            makeEvent(start + i - 1, Num(dailyLoads[i]), 3600, Desc_None, "Ride")]),
                   LAMBDA e : e.icu_training_load.x10 > 0))

Week500 == plannedWeek(-14, <<50, 80, 0, 100, 120, 150, 0>>)
Week600 == plannedWeek(-7, <<60, 90, 0, 110, 130, 180, 30>>)
Week430 == plannedWeek(0, <<0, 150, 60, 0, 100, 120, 0>>)
Week0 == plannedWeek(-21, <<0, 0, 0, 0, 0, 0, 0>>)

PriorWeeks == {Week500, Week600, Week430, Week0}

Histories ==
  {[actualDailyLoads |-> a, previousPlannedWeeks |-> p] :
     a \in ActualSeries, p \in {<<>>, <<Week500>>, <<Week600, Week500>>}}
  \cup {[actualDailyLoads |-> <<>>, previousPlannedWeeks |-> p] :
          p \in SeqsUpTo(PriorWeeks, MaxPrior)}

FallbackLoads == {0, 123, 432, 999}

BaselineConfigs ==
  {[DEFAULT_GUARDRAILS EXCEPT !.baseline_window_days = n] : n \in {28, 8, 7, 3}}

PlannedLoads == {0, 88, 112, 430, 499, 500, 1999}

\* Baselines, in tenths.
Baselines == {-10, 0, 5, 1000, 4300, 5000, 5500, 20000}

\* Ramps, in ten-thousandths of a percent.
Ramps == {-218000, -1, 0, 1, 1000, 30000, 79999, 80000, 90000, 119999, 120000, 200000}

SeverityConfigs ==
  {DEFAULT_GUARDRAILS,
   [DEFAULT_GUARDRAILS EXCEPT !.ramp_warn_pct = 10, !.ramp_stop_pct = 10],
   [DEFAULT_GUARDRAILS EXCEPT !.ramp_warn_pct = 12, !.ramp_stop_pct = 8]}

\* The entries of one day, on the date WeekStart + 1.
DayPool ==
  {makeEvent(WeekStart + 1, Num(150), 3600, Desc_VO2, "Workout"),
   LongEnduranceRide,
   makeEvent(WeekStart + 1, Num(60), 1800, Desc_RecoverySpin, "Ride"),
   makeEvent(WeekStart + 1, Num(60), 5400, Desc_EnduranceZ2, "Ride"),
   makeEvent(WeekStart + 1, Num(95), 5400, Desc_EnduranceZ2, "Ride"),
   makeEvent(WeekStart + 1, Num(85), 3600, Desc_Z2LR, "Ride"),
   makeEvent(WeekStart + 1, Num(40), 3600, Desc_None, "Workout"),
   makeEvent(WeekStart + 1, Num(190), 3600, Desc_None, "Ride"),
   makeEvent(WeekStart + 1, Num(75), 3600, Desc_EnduranceZ2, "Workout"),
   makeEvent(WeekStart + 1, Num(40), 3600, Desc_EnduranceZ2, "Workout"),
   makeEvent(WeekStart + 1, Num(110), 1800, Desc_RecoverySpin, "Ride"),
   makeEvent(WeekStart + 1, Num(50), 1800, Desc_None, "Run"),
   makeEvent(WeekStart + 1, Num(60), 3600, Desc_None, "Ride"),
   makeEvent(WeekStart + 1, Num(60), 3600, Desc_Z2Long, "Ride"),
   makeEvent(WeekStart + 1, Num(30), 1800, Desc_RideEasy, "Ride"),
   makeEvent(WeekStart + 1, Num(130), 3600, Desc_RideEasy, "Ride")}

DayBuckets ==
  {[date |-> WeekStart + 1, events |-> es] : es \in SeqsUpTo(DayPool, MaxEvents)}

\* Caps 141 / 40 / 100, and the fractional caps 149.6 / 59.7 / 199.5.
CapConfigs ==
  {DEFAULT_GUARDRAILS,
   [DEFAULT_GUARDRAILS EXCEPT !.daily_caps = [hard |-> 1410, endurance |-> 400, long_ride |-> 1000]],
   [DEFAULT_GUARDRAILS EXCEPT !.daily_caps = [hard |-> 1496, endurance |-> 597, long_ride |-> 1995]]}

InitCalls ==
  /\ week = weekOf(WeekStart, <<>>)
  /\ history = NoHistory
  /\ config = DEFAULT_GUARDRAILS
  /\ utcOffset = 0
  /\ opts = Null
  /\ preview = Null
  /\ error = ""
  /\ current = Null
  /\ prospective = Null
  /\ applied = Null
  /\ day = Null
  /\ call = Null
  /\ pc = "test"

\* A test makes one direct call; the call leaves everything but its own
\* record as it was.
Returned(c) ==
  /\ call' = Some(c)
  /\ pc' = "called"
  /\ UNCHANGED <<week, history, config, utcOffset, opts, preview, error, current,
                 prospective, applied, day>>

CallCalcBaselineWeekly(h, cfg, fallbackWeekLoad) ==
  /\ pc = "test"
  /\ Returned([fn |-> "calcBaselineWeekly", history |-> h, config |-> cfg,
               fallbackWeekLoad |-> fallbackWeekLoad,
               result |-> calcBaselineWeekly(h, cfg, fallbackWeekLoad)])

CallCalcRampPct(planned, baseline10) ==
  /\ pc = "test"
  /\ Returned([fn |-> "calcRampPct", planned |-> planned, baseline |-> baseline10,
               result |-> calcRampPct(planned, baseline10)])

CallMapSeverity(pctE4, cfg) ==
  /\ pc = "test"
  /\ Returned([fn |-> "mapSeverity", pct |-> pctE4, config |-> cfg,
               result |-> mapSeverity(pctE4, cfg)])

CallCheckDay(bucket, cfg) ==
  /\ pc = "test"
  /\ Returned([fn |-> "checkDay", bucket |-> bucket, config |-> cfg,
               result |-> checkDay(bucket, cfg)])

CallInferDayType(events) ==
  /\ pc = "test"
  /\ Returned([fn |-> "inferDayType", events |-> events,
               result |-> inferDayType(events)])

NextCalls ==
  \/ \E h \in Histories : \E cfg \in BaselineConfigs : \E f \in FallbackLoads :
       CallCalcBaselineWeekly(h, cfg, f)
  \/ \E p \in PlannedLoads : \E b \in Baselines : CallCalcRampPct(p, b)
  \/ \E r \in Ramps : \E cfg \in SeverityConfigs : CallMapSeverity(r, cfg)
  \/ \E b \in DayBuckets : \E cfg \in CapConfigs : CallCheckDay(b, cfg)
  \/ \E b \in DayBuckets : CallInferDayType(b.events)

SpecCalls == InitCalls /\ [][NextCalls]_vars

-----------------------------------------------------------------------------
(* The drift repair loop of distributeDeltaAcrossEvents, one iteration per step *)

MaxEntries == 3
MaxTargetSteps == 6

DriftLoads == {0, 1, 5, 12}

\* The entries of one day, as applyDayDelta hands them over.
DriftEntries ==
  SeqsUpTo({makeEvent(1, Num(l), 3600, Desc_None, "Ride") : l \in DriftLoads}, MaxEntries)

DriftSteps == {1, 2, 5}

\* applyDayDelta passes targetTotal - totalLoad, where targetTotal is a
\* roundStep result: a multiple of the step.
DriftDeltas(events, step) ==
  {k * step - SumSeq(Map(events, LAMBDA e : toInt(e.icu_training_load))) :
     k \in 0..MaxTargetSteps}

\* The call up to the while statement; the two early returns end it at once.
CallDistribute(events, totalDelta, step) ==
  /\ pc = "test"
  /\ IF Len(events) <= 1 \/ totalDelta = 0
     THEN Returned([fn |-> "distributeDeltaAcrossEvents", events |-> events,
                    totalDelta |-> totalDelta, step |-> step, drift |-> 0, drift0 |-> 0,
                    floored |-> FALSE,
                    result |-> distributeDeltaAcrossEvents(events, totalDelta, step)])
     ELSE /\ \E s \in {applyStepped(events, totalDelta, step)} :
               call' = Some([fn |-> "distributeDeltaAcrossEvents", events |-> events,
                             totalDelta |-> totalDelta, step |-> step,
                             updated |-> s.updated, drift |-> s.drift, drift0 |-> s.drift,
                             floored |-> FALSE])
          /\ pc' = "loop"
          /\ UNCHANGED <<week, history, config, utcOffset, opts, preview, error, current,
                         prospective, applied, day>>

\* while (drift !== 0) { ... }: one pass through the body.
NudgeStep ==
  /\ pc = "loop"
  /\ Val(call).drift # 0
  /\ \E c \in {Val(call)} : \E s \in {nudgeOnce(c.updated, c.drift, c.step)} :
       call' = Some([c EXCEPT
                       !.updated = s.updated,
                       !.drift = s.drift,
                       !.floored =
                         \/ c.floored
                         \/ LET idx == indexOfMaxLoad(c.updated)
                            IN toInt(c.updated[idx].icu_training_load) + (c.drift - s.drift) < 0])
  /\ UNCHANGED <<week, history, config, utcOffset, opts, preview, error, current,
                 prospective, applied, day, pc>>

\* The loop condition fails: return updated.
ExitLoop ==
  /\ pc = "loop"
  /\ Val(call).drift = 0
  /\ \E c \in {Val(call)} :
       Returned([fn |-> c.fn, events |-> c.events, totalDelta |-> c.totalDelta,
                 step |-> c.step, drift |-> c.drift, drift0 |-> c.drift0,
                 floored |-> c.floored, result |-> c.updated])

NextDrift ==
  \/ \E events \in DriftEntries : \E step \in DriftSteps :
       \E totalDelta \in DriftDeltas(events, step) : CallDistribute(events, totalDelta, step)
  \/ NudgeStep
  \/ ExitLoop

\* Single-threaded execution: a started call keeps running until it returns.
SpecDrift ==
  InitCalls /\ [][NextDrift]_vars /\ WF_vars(NudgeStep) /\ WF_vars(ExitLoop)

-----------------------------------------------------------------------------
(* Properties of the scaler, read off the state after a call *)

\* The last scaleWeekToTarget call returned from its scaling pass.
Scaled == pc = "previewed"

\* The inputs of the last call make it a no-op: the delta is below min_step,
\* or no day carries weight.
NoOpInput ==
  LET options == withDefaults(Val(opts))
      dayInfos == Map(groupByDate(week), LAMBDA b : analyzeDay(b, config, options))
      beforeLoad == SumSeq(Map(dayInfos, LAMBDA d : d.totalLoad))
      sumW == SumSeq(Map(dayInfos, LAMBDA d : dayWeight(d.dayType, options)))
  IN \/ Abs(resolveTarget(beforeLoad, options) - beforeLoad) < config.min_step
     \/ sumW = 0

\* The days of the clamp pass of the last call.
ClampPass ==
  LET options == withDefaults(Val(opts))
      dayInfos == Map(groupByDate(week), LAMBDA b : analyzeDay(b, config, options))
      beforeLoad == SumSeq(Map(dayInfos, LAMBDA d : d.totalLoad))
  IN scalePasses(dayInfos, resolveTarget(beforeLoad, options) - beforeLoad, config, options)

\* A day of the clamp pass whose proposed total was cut down to its cap.
CapLimited(d) == d.capApplied # Null /\ 10 * (d.totalLoad + d.desiredDelta) > Val(d.capApplied)

\* C1: scaleWeekToTarget never throws; when the delta is below min_step or no
\* day is eligible it returns a result with afterLoad = beforeLoad and no day
\* changed.
C1_NeverThrows ==
  /\ pc # "failed"
  /\ (Scaled /\ NoOpInput) =>
       /\ Val(preview).afterLoad = Val(preview).beforeLoad
       /\ \A i \in 1..Len(Val(preview).changes) : Val(preview).changes[i].appliedDelta = 0

\* C2: after a scaling pass with respectCaps = true, every day of the returned
\* week, checked again by checkDay under the same config, has overBy = 0 and
\* no breaches.
C2_ScaledWeekWithinCaps ==
  (Scaled /\ withDefaults(Val(opts)).respectCaps) =>
    \A i \in 1..Len(Val(prospective).daily) :
      /\ Val(prospective).daily[i].overBy = 0
      /\ Val(prospective).daily[i].breaches = <<>>

\* C3: with respectCaps = true, every change whose capApplied is not null has
\* after <= capApplied.
C3_AfterWithinCap ==
  (Scaled /\ withDefaults(Val(opts)).respectCaps) =>
    \A i \in 1..Len(Val(preview).changes) :
      LET c == Val(preview).changes[i]
      IN c.capApplied # Null => 10 * c.after <= Val(c.capApplied)

\* C4: residual = requestedTarget - afterLoad, and when no day was limited by
\* its cap in the clamp pass (or respectCaps = false) afterLoad equals
\* requestedTarget and residual is 0.
C4_ResidualOnlyFromCaps ==
  Scaled =>
    LET r == Val(preview)
        days == ClampPass
    IN /\ r.residual = r.requestedTarget - r.afterLoad
       /\ (\A i \in 1..Len(days) : ~CapLimited(days[i])) =>
            (r.afterLoad = r.requestedTarget /\ r.residual = 0)

\* C5: scaling up toward an absolute target with default options, afterLoad
\* does not exceed requestedTarget and is within min_step of it.
C5_ScaleUpWithinStep ==
  LET o == withDefaults(Val(opts))
      r == Val(preview)
  IN (/\ Scaled
      /\ o.targetWeeklyLoad > 0
      /\ o.lockRestDays
      /\ o.respectCaps
      /\ r.requestedTarget > r.beforeLoad) =>
       /\ r.afterLoad <= r.requestedTarget
       /\ r.requestedTarget - r.afterLoad <= config.min_step

\* C10: on the scaling pass, changes holds exactly one entry per distinct
\* date that has an entry in the input week, in ascending date order (days
\* with appliedDelta 0 included), and no change and no event of the returned
\* week is dated on a day without entries.
C10_ChangesPerExistingDate ==
  Scaled =>
    LET r == Val(preview)
        dates == {dateOf(week.events[i]) : i \in 1..Len(week.events)}
    IN /\ Len(r.changes) = Cardinality(dates)
       /\ {r.changes[i].date : i \in 1..Len(r.changes)} = dates
       /\ \A i \in 1..Len(r.changes) : \A j \in 1..Len(r.changes) :
            i < j => r.changes[i].date < r.changes[j].date
       /\ \A i \in 1..Len(r.week.events) : dateOf(r.week.events[i]) \in dates

\* C10 happens: a scaling pass with lockRestDays = false over a week with
\* entries on several dates, one of which comes back with appliedDelta 0.
C10_Witness ==
  /\ Scaled
  /\ ~withDefaults(Val(opts)).lockRestDays
  /\ Len(Val(preview).changes) >= 2
  /\ \E i \in 1..Len(Val(preview).changes) : Val(preview).changes[i].appliedDelta = 0

-----------------------------------------------------------------------------
(* Properties of the guardrails, read off the state after a call *)

\* computeGuardrails has returned the summary of week.
Summarised == current # Null

\* The entries of week dated on day d.
eventsOn(d) == SelectSeq(week.events, LAMBDA e : dateOf(e) = d)

\* What an entry's load is meant to contribute: its rounded value when it is
\* a finite number >= 0, and 0 when it is missing, non-numeric, non-finite or
\* negative.
absorbedLoad(e) ==
  LET n == e.icu_training_load
  IN IF n.k = "num" /\ n.x10 >= 0 THEN MathRound(n.x10, 10) ELSE 0

\* C6: computeGuardrails returns exactly seven DailyChecks, for the seven
\* consecutive dates from week_start, whatever the entries' dates; a date
\* without entries is a rest day with totalLoad 0, no cap, overBy 0 and no
\* breaches.
C6_SevenDailyChecks ==
  Summarised =>
    LET daily == Val(current).daily
    IN /\ Len(daily) = 7
       /\ \A i \in 1..Len(daily) :
            /\ daily[i].date = week.week_start + i - 1
            /\ eventsOn(daily[i].date) = <<>> =>
                 /\ daily[i].dayType = "rest"
                 /\ daily[i].totalLoad = 0
                 /\ daily[i].capApplied = Null
                 /\ daily[i].overBy = 0
                 /\ daily[i].breaches = <<>>

\* C7: plannedWeekLoad is the sum of DailyCheck.totalLoad over the seven days
\* of the week, and is sumPlannedLoad(week).
C7_PlannedWeekLoadIsSum ==
  Summarised =>
    LET s == Val(current)
        inWeek == SelectSeq(s.daily, LAMBDA d : d.date \in week.week_start..(week.week_start + 6))
    IN /\ s.plannedWeekLoad = SumSeq(Map(inWeek, LAMBDA d : d.totalLoad))
       /\ s.plannedWeekLoad = sumPlannedLoad(week)

\* C8: the 4-hour Ride of load 200 described "Endurance long ride", alone on
\* its day under caps.endurance = 90 and caps.long_ride = 180, is an endurance
\* day with capApplied 90, breaches endurance_cap and long_ride_cap, overBy 110.
C8_LongEnduranceRide ==
  (/\ pc = "checked"
   /\ week = weekOf(WeekStart, <<LongEnduranceRide>>)
   /\ config.daily_caps.endurance = 900
   /\ config.daily_caps.long_ride = 1800) =>
    /\ Val(day).dayType = "endurance"
    /\ Val(day).capApplied = Some(900)
    /\ "endurance_cap" \in Range(Val(day).breaches)
    /\ "long_ride_cap" \in Range(Val(day).breaches)
    /\ Val(day).overBy = 110

\* C9: computeGuardrails and checkDay absorb anomalous loads: a missing,
\* non-numeric, non-finite or negative load counts 0 in its day's totalLoad
\* and in plannedWeekLoad, which are therefore integers >= 0.
C9_AnomalousLoadsCountZero ==
  /\ Summarised =>
       /\ Val(current).plannedWeekLoad = SumSeq(Map(week.events, absorbedLoad))
       /\ Val(current).plannedWeekLoad >= 0
       /\ \A i \in 1..Len(Val(current).daily) :
            LET d == Val(current).daily[i]
            IN d.totalLoad = SumSeq(Map(eventsOn(d.date), absorbedLoad))
  /\ pc = "checked" =>
       /\ Val(day).totalLoad = SumSeq(Map(eventsOn(Val(day).date), absorbedLoad))
       /\ Val(day).totalLoad >= 0

-----------------------------------------------------------------------------
(* Frame of the scaler *)

\* An entry with its load (and the identity of its object) left out.
exceptLoad(e) == [e EXCEPT !.icu_training_load = Num(0), !.ref = 0]

\* The entries of the week plan w dated on day d.
entriesOn(w, d) == SelectSeq(w.events, LAMBDA e : dateOf(e) = d)

\* out holds, date by date, the entries of in, equal in every field but the
\* load, and every entry of out is an object of its own.
SameEntriesButLoad(in, out) ==
  /\ out.week_start = in.week_start
  /\ Len(out.events) = Len(in.events)
  /\ \A i \in 1..Len(out.events) : out.events[i].ref = 0
  /\ \A i \in 1..Len(in.events) :
       LET d == dateOf(in.events[i])
       IN Map(entriesOn(out, d), exceptLoad) = Map(entriesOn(in, d), exceptLoad)

\* C11: a call of scaleWeekToTarget leaves the input week and each of its
\* entries as they were, and the week it returns is a new value with the same
\* week_start and, date by date, the same entries, which differ from the
\* input's only in icu_training_load.
C11_InputNotMutated ==
  [][(pc = "idle" /\ pc' \in {"previewed", "failed"}) =>
       /\ week' = week
       /\ pc' = "previewed" => SameEntriesButLoad(week, Val(preview').week)]_vars

\* C11 happens: a scaling pass returned a week in which a day with two
\* entries went through the drift-repairing distribution and an entry's load
\* differs from the input's.
C11_Witness ==
  /\ Scaled
  /\ \E i \in 1..Len(week.events) : \E j \in 1..Len(week.events) :
       i # j /\ dateOf(week.events[i]) = dateOf(week.events[j])
  /\ \E d \in ScaleDays :
       Map(entriesOn(Val(preview).week, d), LAMBDA e : e.icu_training_load)
         # Map(entriesOn(week, d), LAMBDA e : e.icu_training_load)

-----------------------------------------------------------------------------
(* Properties of the baseline, read off a direct call *)

\* The last direct call was calcBaselineWeekly.
BaselineCall == call # Null /\ Val(call).fn = "calcBaselineWeekly"

\* ... with actual daily loads supplied.
ActualCall == BaselineCall /\ Len(Val(call).history.actualDailyLoads) > 0

\* ... with no actual daily loads and prior planned weeks supplied.
PriorCall ==
  /\ BaselineCall
  /\ Len(Val(call).history.actualDailyLoads) = 0
  /\ Len(Val(call).history.previousPlannedWeeks) > 0

\* C12: calcBaselineWeekly uses the first available source: with actual daily
\* loads supplied the result does not depend on the prior weeks or on the
\* fallback load; otherwise, with prior weeks supplied, it does not depend on
\* the fallback load; otherwise it is the fallback load.
C12_FirstSourceWins ==
  BaselineCall =>
    LET c == Val(call)
        h == c.history
    IN /\ Len(h.actualDailyLoads) > 0 =>
            \A p \in {<<>>, <<Week430>>, <<Week0, Week600>>} : \A f \in FallbackLoads :
              calcBaselineWeekly([h EXCEPT !.previousPlannedWeeks = p], c.config, f) = c.result
       /\ (Len(h.actualDailyLoads) = 0 /\ Len(h.previousPlannedWeeks) > 0) =>
            \A f \in FallbackLoads : calcBaselineWeekly(h, c.config, f) = c.result
       /\ (Len(h.actualDailyLoads) = 0 /\ Len(h.previousPlannedWeeks) = 0) =>
            c.result = 10 * c.fallbackWeekLoad

\* C12 happens: a call with both sources supplied, whose prior weeks alone
\* would have given another baseline, and whose fallback is a third value.
C12_Witness ==
  /\ ActualCall
  /\ Len(Val(call).history.previousPlannedWeeks) > 0
  /\ calcBaselineWeekly([Val(call).history EXCEPT !.actualDailyLoads = <<>>],
                        Val(call).config, Val(call).fallbackWeekLoad) # Val(call).result
  /\ 10 * Val(call).fallbackWeekLoad # Val(call).result

\* The sum of the loads, in tenths, of a set of daily entries.
RECURSIVE loadSum(_)
loadSum(S) ==
  IF S = {} THEN 0
  ELSE LET e == CHOOSE x \in S : TRUE
       IN e.load.x10 + loadSum(S \ {e})

\* The n most recent entries, by date, of a set of daily entries.
mostRecent(S, n) == {e \in S : Cardinality({f \in S : f.date > e.date}) < n}

\* C13: with actual daily loads supplied, the baseline is 7 times the mean
\* load of the N = max(7, baseline_window_days) most recent entries by date
\* (of all of them when fewer are supplied), to the nearest tenth, whatever
\* the order of the series; 28 days at 80 give 560.
C13_ActualBaseline ==
  ActualCall =>
    LET c == Val(call)
        series == c.history.actualDailyLoads
        recent == mostRecent(Range(series), Max(7, c.config.baseline_window_days))
        n == Cardinality(recent)
    IN /\ 2 * Abs(c.result * n - 7 * loadSum(recent)) <= n
       /\ \A xs \in {Reversed(series), Rotated(series)} :
            calcBaselineWeekly([c.history EXCEPT !.actualDailyLoads = xs],
                               c.config, c.fallbackWeekLoad) = c.result
       /\ (series = Flat(TestDays) /\ c.config = DEFAULT_GUARDRAILS) => c.result = 5600

\* C13 happens: a series longer than the window, supplied newest first, whose
\* entries older than the window would change the mean.
C13_Witness ==
  /\ ActualCall
  /\ LET series == Val(call).history.actualDailyLoads
         N == Max(7, Val(call).config.baseline_window_days)
     IN /\ Len(series) > N
        /\ series[1].date > series[Len(series)].date
        /\ loadSum(Range(series)) * N # loadSum(mostRecent(Range(series), N)) * Len(series)

\* The total load of a planned week whose loads are whole numbers.
weekTotal(w) == SumSeq(Map(w.events, LAMBDA e : e.icu_training_load.x10 \div 10))

Reorderings(n) == {f \in [1..n -> 1..n] : \A i \in 1..n : \E j \in 1..n : f[j] = i}

\* C15: the prior planned weeks may be supplied in any order: every
\* reordering of the list gives the same baseline.
C15_PriorOrderIrrelevant ==
  PriorCall =>
    LET c == Val(call)
        p == c.history.previousPlannedWeeks
    IN \A f \in Reorderings(Len(p)) :
         calcBaselineWeekly([c.history EXCEPT
                               !.previousPlannedWeeks = Array([i \in 1..Len(p) |-> p[f[i]]])],
                            c.config, c.fallbackWeekLoad) = c.result

\* C16: with no history (no actual loads, no prior weeks), computeGuardrails
\* returns a baseline equal to plannedWeekLoad, rampPct 0 and severity none,
\* for every week.
C16_NoHistoryZeroRamp ==
  (Summarised /\ history = NoHistory) =>
    LET s == Val(current)
    IN /\ s.baselineWeeklyLoad = 10 * s.plannedWeekLoad
       /\ s.rampPct = 0
       /\ s.rampSeverity = "none"

\* C16 happens: the summary of a week with a planned load above 0 and no
\* history.
C16_Witness ==
  /\ Summarised
  /\ history = NoHistory
  /\ Val(current).plannedWeekLoad > 0

-----------------------------------------------------------------------------
(* Properties of the ramp and its severity, read off a direct call *)

RampCall == call # Null /\ Val(call).fn = "calcRampPct"

\* C17: calcRampPct is 0 when baseline <= 0, and otherwise
\* (planned - baseline) / baseline * 100 to the nearest tenth;
\* calcRampPct(112, 100) = 12.0; the result is negative exactly when planned
\* is below a positive baseline by enough to round to a tenth below zero.
C17_RampPct ==
  RampCall =>
    LET c == Val(call)
        p10 == 10 * c.planned
        b10 == c.baseline
    IN /\ b10 <= 0 => c.result = 0
       /\ b10 > 0 => 2 * Abs(c.result * b10 - (p10 - b10) * 1000) <= b10
       /\ (c.planned = 112 /\ b10 = 1000) => c.result = 120
       /\ c.result < 0 <=> (b10 > 0 /\ 2 * (b10 - p10) * 1000 > b10)

\* C17 happens: a planned load below a positive baseline, with a ramp that
\* is not a whole percent.
C17_Witness ==
  /\ RampCall
  /\ Val(call).baseline > 0
  /\ Val(call).result < 0
  /\ Val(call).result % 10 # 0

SeverityCall == call # Null /\ Val(call).fn = "mapSeverity"

tierRank(t) == CASE t = "none" -> 0 [] t = "info" -> 1 [] t = "warn" -> 2 [] t = "stop" -> 3

-----------------------------------------------------------------------------
(* Properties of the day checker and classifier, read off a direct call *)

CheckDayCall == call # Null /\ Val(call).fn = "checkDay"

\* C19: checkDay applies the cap policy: the primary cap is caps.hard on a
\* hard day, caps.endurance on an endurance day, min(caps.endurance, 50) on a
\* recovery day and none on a rest day, with hard_cap or endurance_cap
\* recorded iff totalLoad exceeds it; on a day of 3 hours or more, or with a
\* long-ride hint, long_ride_cap is recorded iff totalLoad > caps.long_ride
\* and capApplied is the min of the primary cap and caps.long_ride; overBy is
\* max(0, totalLoad - capApplied), 0 without a cap.  A single hard entry of
\* load 150 against caps.hard = 140 gives overBy 10 and hard_cap.
C19_CapPolicy ==
  CheckDayCall =>
    LET c == Val(call)
        r == c.result
        caps == c.config.daily_caps
        events == c.bucket.events
        primary ==
          CASE r.dayType = "hard" -> Some(caps.hard)
            [] r.dayType = "endurance" -> Some(caps.endurance)
            [] r.dayType = "recovery" -> Some(Min(caps.endurance, 500))
            [] r.dayType = "rest" -> Null
        long ==
          \/ SumSeq(Map(events, LAMBDA e : e.moving_time)) >= 3 * 3600
          \/ hasLongRideHint(events)
        primaryName == IF r.dayType = "hard" THEN "hard_cap" ELSE "endurance_cap"
    IN /\ Range(r.breaches) =
            {b \in {primaryName} : primary # Null /\ 10 * r.totalLoad > Val(primary)}
            \cup {b \in {"long_ride_cap"} : long /\ 10 * r.totalLoad > caps.long_ride}
       /\ Len(r.breaches) = Cardinality(Range(r.breaches))
       /\ r.capApplied =
            IF ~long THEN primary
            ELSE IF primary = Null THEN Some(caps.long_ride)
            ELSE Some(Min(Val(primary), caps.long_ride))
       /\ 10 * r.overBy = IF r.capApplied = Null THEN 0
                          ELSE Max(0, 10 * r.totalLoad - Val(r.capApplied))
       /\ (events = <<makeEvent(WeekStart + 1, Num(150), 3600, Desc_VO2, "Workout")>>
           /\ caps.hard = 1400) =>
            r.dayType = "hard" /\ r.overBy = 10 /\ "hard_cap" \in Range(r.breaches)

\* C19 happens: a day of two 90-minute rides without a long-ride hint, three
\* hours together, whose load is over both its primary cap and the long-ride
\* cap.
C19_Witness ==
  /\ CheckDayCall
  /\ Len(Val(call).bucket.events) = 2
  /\ ~hasLongRideHint(Val(call).bucket.events)
  /\ Val(call).result.totalMovingTime = 3 * 3600
  /\ Val(call).result.breaches = <<"endurance_cap", "long_ride_cap">>

InferCall == call # Null /\ Val(call).fn = "inferDayType"

\* C20: inferDayType is rest iff there are no entries; otherwise it is the
\* label of the first entry, in entry order, with the day's maximum score
\* (3 hard, 2 endurance, 1 recovery), and never rest.
C20_FirstMaximumScore ==
  InferCall =>
    LET c == Val(call)
        events == c.events
        scores == Map(events, scoreEventHardness)
        first == CHOOSE i \in 1..Len(events) :
                   /\ \A j \in 1..Len(events) : scores[j] <= scores[i]
                   /\ \A j \in 1..(i - 1) : scores[j] < scores[i]
    IN /\ c.result = "rest" <=> Len(events) = 0
       /\ Len(events) > 0 =>
            c.result = CASE scores[first] = 3 -> "hard"
                         [] scores[first] = 2 -> "endurance"
                         [] scores[first] = 1 -> "recovery"

\* C20 happens: a day whose second entry scores higher than its first.
C20_Witness ==
  /\ InferCall
  /\ Len(Val(call).events) = 2
  /\ scoreEventHardness(Val(call).events[1]) < scoreEventHardness(Val(call).events[2])

\* The signals of an entry, read off its fields.
hardKeyword(e) == someIncluded(hardHints, toLowerCase(e.description))
enduranceKeyword(e) == someIncluded(enduHints, toLowerCase(e.description))
recoveryKeyword(e) == someIncluded(recHints, toLowerCase(e.description))
meetsLoadThreshold(e) ==
  \/ e.type = "Workout" /\ e.icu_training_load.x10 >= 700
  \/ e.icu_training_load.x10 >= 1000

\* The score the priority order gives an entry.
priorityScore(e) ==
  CASE hardKeyword(e) -> 3
    [] ~hardKeyword(e) /\ meetsLoadThreshold(e) -> 3
    [] ~hardKeyword(e) /\ ~meetsLoadThreshold(e) /\ enduranceKeyword(e) -> 2
    [] ~hardKeyword(e) /\ ~meetsLoadThreshold(e) /\ ~enduranceKeyword(e)
         /\ recoveryKeyword(e) -> 1
    [] OTHER -> IF e.type = "Workout" THEN 3 ELSE 2

-----------------------------------------------------------------------------
(* Properties of the scaler's passes, read off the state after a call *)

\* The total load of the week handed to the scaler.
inputLoad == SumSeq(Map(week.events, LAMBDA e : e.icu_training_load.x10 \div 10))

\* An option that is given and positive.
positive(v) == v # Null /\ Val(v) > 0

\* The target the options ask for, with the options in tenths.
askedTarget ==
  LET o == Val(opts)
  IN IF positive(o.targetWeeklyLoad) THEN MathRound(Val(o.targetWeeklyLoad), 10)
     ELSE IF positive(o.scalePct) THEN MathRound(inputLoad * Val(o.scalePct), 1000)
     ELSE inputLoad

\* C22: requestedTarget is round(targetWeeklyLoad) when that is given and
\* positive, whatever scalePct is; else round(beforeLoad * scalePct / 100)
\* when scalePct is given and positive; else beforeLoad, which asks for no
\* change: zero, negative and missing options fall through.
C22_ResolveTarget ==
  opts # Null =>
    /\ resolveTarget(inputLoad, withDefaults(Val(opts))) = askedTarget
    /\ preview # Null => Val(preview).requestedTarget = askedTarget
    /\ (~positive(Val(opts).targetWeeklyLoad) /\ ~positive(Val(opts).scalePct)) =>
         /\ askedTarget = inputLoad
         /\ preview # Null =>
              \A i \in 1..Len(Val(preview).changes) : Val(preview).changes[i].appliedDelta = 0

\* C22 happens: a scaling pass with both options given and positive, where
\* the percentage would have asked for another target.
C22_Witness ==
  /\ Scaled
  /\ positive(Val(opts).targetWeeklyLoad)
  /\ positive(Val(opts).scalePct)
  /\ Val(preview).requestedTarget = MathRound(Val(Val(opts).targetWeeklyLoad), 10)
  /\ Val(preview).requestedTarget # MathRound(inputLoad * Val(Val(opts).scalePct), 1000)

\* C23: for every day the scaler processed, the entries' load changes add up
\* to the appliedDelta of the clamp pass: the day's new total is the clamped,
\* step-rounded targetTotal.
C23_EntriesAddUpToDayDelta ==
  Scaled =>
    \A i \in 1..Len(ClampPass) :
      ClampPass[i].newTotal - ClampPass[i].totalLoad
        = ClampPass[i].targetTotal - ClampPass[i].totalLoad

\* C24: with respectCaps = true the cap the scaler reports for a day is the
\* capApplied checkDay reports for the same entries under the same config;
\* with respectCaps = false the scaler's cap is null for every day and no day
\* is clamped.
C24_SameCapPolicy ==
  Scaled =>
    LET r == Val(preview)
    IN \A i \in 1..Len(r.changes) :
         LET c == r.changes[i]
             bucket == [date |-> c.date, events |-> entriesOn(week, c.date)]
         IN IF withDefaults(Val(opts)).respectCaps
            THEN c.capApplied = checkDay(bucket, config).capApplied
            ELSE /\ c.capApplied = Null
                 /\ ClampPass[i].targetTotal
                      = roundStep(ClampPass[i].totalLoad + ClampPass[i].desiredDelta, 1,
                                  config.min_step)

\* C25: on a scale-up (requestedTarget above beforeLoad), a day whose load
\* before scaling is within its cap does not end lower than it started.
C25_ScaleUpNeverLowers ==
  (Scaled /\ Val(preview).requestedTarget > Val(preview).beforeLoad) =>
    \A i \in 1..Len(Val(preview).changes) :
      LET c == Val(preview).changes[i]
      IN (c.capApplied = Null \/ 10 * c.before <= Val(c.capApplied)) => c.after >= c.before

-----------------------------------------------------------------------------
(* Termination of the drift repair loop *)

\* The call of distributeDeltaAcrossEvents under way or just returned.
DriftCall == call # Null /\ Val(call).fn = "distributeDeltaAcrossEvents"

\* C26: the drift repair loop terminates: every iteration strictly
\* decreases |drift|, and a call that has reached the loop returns with
\* drift = 0 after finitely many iterations, also when the nudged entry is
\* floored at 0.
C26_DriftLoopTerminates ==
  /\ [][(pc = "loop" /\ Val(call).drift # 0) =>
          Abs(Val(call').drift) < Abs(Val(call).drift)]_vars
  /\ (pc = "loop") ~> (pc = "called" /\ DriftCall /\ Val(call).drift = 0)

\* A call returned after a loop of more than one iteration in which the
\* nudged entry was floored at 0.
C26_Witness ==
  /\ pc = "called"
  /\ DriftCall
  /\ Abs(Val(call).drift0) > Val(call).step
  /\ Val(call).floored
  /\ Val(call).drift = 0

-----------------------------------------------------------------------------
(* Consistency of the ScaleResult *)

\* The loads stored in a list of entries are all numbers.
allNumbers(events) == \A i \in 1..Len(events) : events[i].icu_training_load.k = "num"

\* Sum of the stored icu_training_load values, in tenths.
storedLoad10(events) == SumSeq(Map(events, LAMBDA e : e.icu_training_load.x10))

\* C27: a ScaleResult of the scaling pass is consistent with itself and with
\* the week it returns: beforeLoad and afterLoad are the sums of the changes'
\* before and after, afterLoad is the sum of icu_training_load over the
\* returned week's entries, each appliedDelta is after - before, residual is
\* requestedTarget - afterLoad, and computeGuardrails on the returned week
\* reports plannedWeekLoad = afterLoad.
C27_ResultConsistent ==
  Scaled =>
    LET r == Val(preview)
    IN /\ r.beforeLoad = SumSeq(Map(r.changes, LAMBDA c : c.before))
       /\ r.afterLoad = SumSeq(Map(r.changes, LAMBDA c : c.after))
       /\ allNumbers(r.week.events)
       /\ 10 * r.afterLoad = storedLoad10(r.week.events)
       /\ \A i \in 1..Len(r.changes) :
            r.changes[i].appliedDelta = r.changes[i].after - r.changes[i].before
       /\ r.residual = r.requestedTarget - r.afterLoad
       /\ Val(prospective).plannedWeekLoad = r.afterLoad

\* A result with two changed days, a residual, and a day whose entry was
\* floored at 0 short of its target.
C27_Witness ==
  /\ Scaled
  /\ Len(Val(preview).changes) >= 2
  /\ Val(preview).residual # 0
  /\ Val(preview).afterLoad # Val(preview).beforeLoad
  /\ \E i \in 1..Len(ClampPass) : ClampPass[i].newTotal # ClampPass[i].targetTotal

-----------------------------------------------------------------------------
(* Loads stay whole and non-negative *)

\* A stored load is an integer >= 0.
wholeLoad(v) == v.k = "num" /\ v.x10 >= 0 /\ v.x10 % 10 = 0

\* The week handed to the last call had integer loads >= 0 only (the call
\* writes to no entry of its input).
wholeInput == \A i \in 1..Len(week.events) : wholeLoad(week.events[i].icu_training_load)

\* C28: given a week of integer loads >= 0, every entry load of the returned
\* week is an integer >= 0 and every changes.after is >= 0, for every target,
\* scale-downs without caps beyond a day's load included.
C28_LoadsNeverNegative ==
  (Scaled /\ wholeInput) =>
    LET r == Val(preview)
    IN /\ \A i \in 1..Len(r.week.events) : wholeLoad(r.week.events[i].icu_training_load)
       /\ \A i \in 1..Len(r.changes) : r.changes[i].after >= 0

\* A scale-down with respectCaps = false in which a day's share exceeds its
\* load: the day's target is negative and its entry ends at 0.
C28_Witness ==
  /\ Scaled
  /\ wholeInput
  /\ ~withDefaults(Val(opts)).respectCaps
  /\ Val(preview).requestedTarget < Val(preview).beforeLoad
  /\ \E i \in 1..Len(ClampPass) :
       /\ ClampPass[i].targetTotal < 0
       /\ ClampPass[i].totalLoad > 0
       /\ ClampPass[i].newTotal = 0

-----------------------------------------------------------------------------
(* overBy and the breach codes *)

\* C29: in every DailyCheck of checkDay under caps >= 0, overBy > 0 exactly
\* when there is a breach code, overBy >= 0, and a day without entries has no
\* cap, overBy 0 and no breach code.
C29_OverByIffBreaches ==
  (/\ CheckDayCall
   /\ \A k \in DOMAIN Val(call).config.daily_caps : Val(call).config.daily_caps[k] >= 0) =>
    LET r == Val(call).result
    IN /\ (r.overBy > 0) <=> (r.breaches # <<>>)
       /\ r.overBy >= 0
       /\ Val(call).bucket.events = <<>> =>
            r.capApplied = Null /\ r.overBy = 0 /\ r.breaches = <<>>

-----------------------------------------------------------------------------
(* Entry order *)

\* The entries es in the order f.
reordered(es, f) == Array([i \in 1..Len(es) |-> es[f[i]]])

\* inferDayType gives the same label for every order of the entries.
InferOrderIrrelevant ==
  InferCall =>
    \A f \in Reorderings(Len(Val(call).events)) :
      inferDayType(reordered(Val(call).events, f)) = Val(call).result

\* C30: the day's classification depends only on the maximum score of its
\* entries: inferDayType returns the same label for every order of a
\* non-empty entry list, and checkDay's dayType, capApplied, overBy and
\* breaches are the same for every order of the day's entries.
C30_EntryOrderIrrelevant ==
  /\ InferOrderIrrelevant
  /\ CheckDayCall =>
       LET c == Val(call)
       IN \A f \in Reorderings(Len(c.bucket.events)) :
            LET r == checkDay([c.bucket EXCEPT !.events = reordered(c.bucket.events, f)],
                              c.config)
            IN /\ r.dayType = c.result.dayType
               /\ r.capApplied = c.result.capApplied
               /\ r.overBy = c.result.overBy
               /\ r.breaches = c.result.breaches

====
